---- MODULE Spec2Model ----
(***************************************************************************)
(* Model of the contact store of contacts-tui (src/storage.py, the SQLite  *)
(* backed ContactStorage) and of the Contact record (src/models.py).       *)
(*                                                                         *)
(* Text (Python str, SQLite TEXT) is a sequence of code points, so that    *)
(* str.strip(), str.lower() and the NOCASE collation are computed and not  *)
(* assumed.  An Optional value is None == <<>> or Some(x) == <<x>>.        *)
(* A datetime is a small integer; its ISO-8601 text is a one-character     *)
(* text.  The columns created_at / updated_at are never read by the        *)
(* program and are left out of a row.                                      *)
(*                                                                         *)
(* Specifications:                                                         *)
(*   Spec       the SQLite store's operations on a healthy database file   *)
(*   SpecRecord construction of a Contact (src/models.py and               *)
(*              src/models/contact.py)                                     *)
(*   SpecJson   the JSON store (src/services/storage.py) with its file,    *)
(*              process restarts and failing writes                        *)
(*   SpecBoth   both stores driven by the same calls                       *)
(*   SpecFiles  the SQLite store's database file and backup_database       *)
(*   SpecScreens the list-screen application (src/screens.py)              *)
(*   SpecSidebar the sidebar application (src/main.py)                     *)
(***************************************************************************)
EXTENDS FiniteSets, Integers, Sequences, TLC

\* SQLite store: the contacts table, the table before the last call, the
\* last call and its outcome
VARIABLES db, pre, call, ret

\* JSON store: self.contacts, the file CONTACTS_FILE, whether a store object
\* exists, whether a caller holds the list get_all_contacts returned, and
\* the state before the last call, the last call and its outcome
VARIABLES contacts, file, up, held, jpre, jcall, jret

\* database files: the live file's condition, the file at the backup path,
\* and both before the last call
VARIABLES live, backup, fpre

sqlVars == <<db, pre, call, ret>>

jsonVars == <<contacts, file, up, held, jpre, jcall, jret>>

fileVars == <<live, backup, fpre>>

\* user interface: the screen on top (or "none"), the rows of the contacts
\* table, the name a dialog or edit form was opened for, the last handler
\* run with what it did, the store and table before it, and the three
\* sidebars' reactive flags
VARIABLES screen, table, pending, ev, upre, show_sidebar, show_add_contact, show_edit_contact

uiVars ==
    <<screen, table, pending, ev, upre, show_sidebar, show_add_contact, show_edit_contact>>

vars == <<db, pre, call, ret, contacts, file, up, held, jpre, jcall, jret, live, backup, fpre,
          screen, table, pending, ev, upre, show_sidebar, show_add_contact, show_edit_contact>>

(***************************************************************************)
(* Bounds.                                                                 *)
(***************************************************************************)
MaxContacts == 2

(***************************************************************************)
(* Optional values.                                                        *)
(***************************************************************************)
None == <<>>

Some(x) == <<x>>

(***************************************************************************)
(* Text primitives.                                                        *)
(***************************************************************************)
RECURSIVE lstrip(_)
lstrip(s) == IF Len(s) > 0 /\ s[1] = 32 THEN lstrip(Tail(s)) ELSE s

RECURSIVE rstrip(_)
rstrip(s) == IF Len(s) > 0 /\ s[Len(s)] = 32 THEN rstrip(SubSeq(s, 1, Len(s) - 1)) ELSE s

\* str.strip(): surrounding whitespace removed.
strip(s) == rstrip(lstrip(s))

\* str.lower() on one code point (ASCII and Latin-1 upper case letters).
lower_char(c) == IF (c >= 65 /\ c <= 90) \/ (c >= 192 /\ c <= 222 /\ c # 215) THEN c + 32 ELSE c

\* str.lower()
lower(s) == [i \in 1..Len(s) |-> lower_char(s[i])]

\* SQLite's NOCASE collation folds the 26 upper case letters of ASCII only.
nocase_char(c) == IF c >= 65 /\ c <= 90 THEN c + 32 ELSE c

NOCASE(s) == [i \in 1..Len(s) |-> nocase_char(s[i])]

\* lexicographic order of two texts, code point by code point
RECURSIVE TextLess(_, _)
TextLess(a, b) ==
    IF Len(a) = 0 THEN Len(b) > 0
    ELSE IF Len(b) = 0 THEN FALSE
    ELSE IF a[1] # b[1] THEN a[1] < b[1]
    ELSE TextLess(Tail(a), Tail(b))

\* datetime.isoformat() and datetime.fromisoformat()
isoformat(d) == <<48 + d>>

fromisoformat(t) == t[1] - 48

(***************************************************************************)
(* The Contact record (pydantic model) and its field constraints.          *)
(***************************************************************************)
Contact(name, phone, email, notes, last_contacted) ==
    [name |-> name, phone |-> phone, email |-> email, notes |-> notes,
     last_contacted |-> last_contacted]

\* TRUE iff constructing Contact(...) passes validation (no ValidationError)
ContactValid(c) ==
    /\ Len(c.name) >= 1 /\ Len(c.name) <= 100
    /\ Len(c.phone) >= 5 /\ Len(c.phone) <= 20
    /\ (c.email = None \/ Len(c.email[1]) <= 100)
    /\ (c.notes = None \/ Len(c.notes[1]) <= 1000)

(***************************************************************************)
(* Inputs: the texts and contacts the operations are called with.          *)
(***************************************************************************)
\* "a", "A", " a", e-acute, E-acute, " "
ContactNames == {<<97>>, <<65>>, <<32, 97>>, <<233>>, <<201>>, <<32>>}

\* "", " ", "a", "A", " a", E-acute, "ab"
LookupNames == {<<>>, <<32>>, <<97>>, <<65>>, <<32, 97>>, <<201>>, <<97, 98>>}

\* "12345"
DefaultPhone == <<49, 50, 51, 52, 53>>

\* "12345", "  1  ", "     "
Phones == {DefaultPhone, <<32, 32, 49, 32, 32>>, <<32, 32, 32, 32, 32>>}

\* None, " e"
Emails == {None, Some(<<32, 101>>)}

\* None, ""
Notes == {None, Some(<<>>)}

LastContacted == {None, Some(1), Some(2)}

Contacts ==
    {c \in    {Contact(n, DefaultPhone, None, None, None) : n \in ContactNames}
         \cup {Contact(<<97>>, p, None, None, None) : p \in Phones}
         \cup {Contact(<<97>>, DefaultPhone, e, nt, l) :
                  e \in Emails, nt \in Notes, l \in LastContacted}
       : ContactValid(c)}

(***************************************************************************)
(* Results of a call: ok is the boolean a mutating operation returns, val  *)
(* the contacts a read returns (<<>> is None / the empty list), exc is     *)
(* TRUE when an exception escaped the call.                                *)
(***************************************************************************)
Returned(b) == [ok |-> b, val |-> <<>>, exc |-> FALSE]

Value(v) == [ok |-> TRUE, val |-> v, exc |-> FALSE]

Raised == [ok |-> FALSE, val |-> <<>>, exc |-> TRUE]

Call(op, name, contact) == [op |-> op, name |-> name, contact |-> contact]

(***************************************************************************)
(* ContactStorage (SQLite).                                                *)
(***************************************************************************)
\* `not s or not s.strip()` for a str s
Blank(s) == Len(s) = 0 \/ Len(strip(s)) = 0

\* a validator that forgets the phone check
ValidateNameOnly(c) == ~Blank(c.name)

_validate_contact(c) == ~Blank(c.name) /\ ~Blank(c.phone)

\* `x.strip() if x else None` for an Optional[str] x
StripOrNone(x) == IF x # None /\ Len(x[1]) > 0 THEN Some(strip(x[1])) ELSE None

\* the tuple of parameters bound to INSERT / UPDATE
RowOf(c) ==
    [name |-> strip(c.name),
     phone |-> strip(c.phone),
     email |-> StripOrNone(c.email),
     notes |-> StripOrNone(c.notes),
     last_contacted |-> IF c.last_contacted # None
                        THEN Some(isoformat(c.last_contacted[1])) ELSE None]

\* rows selected by `WHERE name = ? COLLATE NOCASE`
Matching(rows, key) == {r \in rows : NOCASE(r.name) = NOCASE(key)}

\* PRIMARY KEY COLLATE NOCASE: would `row` collide with a row of `rows`
Conflicts(rows, row) == \E r \in rows : NOCASE(r.name) = NOCASE(row.name)

\* Contact(name=row["name"], ...) built from a fetched row
FromRow(r) ==
    Contact(r.name, r.phone, r.email, r.notes,
            IF r.last_contacted # None /\ Len(r.last_contacted[1]) > 0
            THEN Some(fromisoformat(r.last_contacted[1])) ELSE None)

\* ORDER BY name COLLATE NOCASE
RECURSIVE OrderByName(_)
OrderByName(rows) ==
    IF rows = {} THEN <<>>
    ELSE LET first == CHOOSE r \in rows :
                         \A q \in rows : ~TextLess(NOCASE(q.name), NOCASE(r.name))
         IN <<first>> \o OrderByName(rows \ {first})

\* the table after INSERT (unchanged when the statement fails)
InsertRow(rows, c) ==
    IF ~_validate_contact(c) \/ Conflicts(rows, RowOf(c)) THEN rows
    ELSE rows \cup {RowOf(c)}

\* an UPDATE that inserts the row when no row matched (an upsert)
UpdateOrInsertRows(rows, name, c) ==
    IF Blank(name) \/ ~_validate_contact(c) THEN rows
    ELSE LET hit == Matching(rows, strip(name))
         IN IF Conflicts(rows \ hit, RowOf(c)) THEN rows
            ELSE (rows \ hit) \cup {RowOf(c)}

\* the table after UPDATE ... WHERE name = ? COLLATE NOCASE
UpdateRows(rows, name, c) ==
    IF Blank(name) \/ ~_validate_contact(c) THEN rows
    ELSE LET hit == Matching(rows, strip(name))
         IN IF hit = {} \/ Conflicts(rows \ hit, RowOf(c)) THEN rows
            ELSE (rows \ hit) \cup {RowOf(c)}

\* the table after DELETE ... WHERE name = ? COLLATE NOCASE
DeleteRows(rows, name) ==
    IF Blank(name) THEN rows ELSE rows \ Matching(rows, strip(name))

\* what get_contact_by_name(name) returns on the table `rows`
LookupResult(rows, name) ==
    IF Blank(name) THEN Value(None)
    ELSE LET hit == Matching(rows, strip(name))
         IN IF hit = {} THEN Value(None)
            ELSE LET row == CHOOSE r \in hit : TRUE
                 IN IF ContactValid(FromRow(row)) THEN Value(Some(FromRow(row)))
                    ELSE Raised

\* what get_all_contacts() returns on the table `rows`
ListResult(rows) ==
    IF \A r \in rows : ContactValid(FromRow(r))
    THEN Value([i \in 1..Cardinality(rows) |-> FromRow(OrderByName(rows)[i])])
    ELSE Raised

\* a lookup that removes the row it returns
take_contact_by_name(name) ==
    /\ db' = DeleteRows(db, name)
    /\ pre' = db
    /\ call' = Call("get_contact_by_name", Some(name), None)
    /\ ret' = LookupResult(db, name)

\* get_all_contacts() of a new ContactStorage opened on the database file
\* that holds `rows`: CREATE TABLE / INDEX IF NOT EXISTS leave the rows alone
ReopenedList(rows) == ListResult(rows)

add_contact(c) ==
    /\ db' = InsertRow(db, c)
    /\ Cardinality(db') <= MaxContacts
    /\ pre' = db
    /\ call' = Call("add_contact", None, Some(c))
    /\ ret' = Returned(_validate_contact(c) /\ ~Conflicts(db, RowOf(c)))

update_contact(name, c) ==
    /\ db' = UpdateRows(db, name, c)
    /\ pre' = db
    /\ call' = Call("update_contact", Some(name), Some(c))
    /\ ret' = Returned(/\ ~Blank(name)
                       /\ _validate_contact(c)
                       /\ Matching(db, strip(name)) # {}
                       /\ ~Conflicts(db \ Matching(db, strip(name)), RowOf(c)))

delete_contact(name) ==
    /\ db' = DeleteRows(db, name)
    /\ pre' = db
    /\ call' = Call("delete_contact", Some(name), None)
    /\ ret' = Returned(~Blank(name) /\ Matching(db, strip(name)) # {})

get_contact_by_name(name) ==
    /\ db' = db
    /\ pre' = db
    /\ call' = Call("get_contact_by_name", Some(name), None)
    /\ ret' = LookupResult(db, name)

get_all_contacts ==
    /\ db' = db
    /\ pre' = db
    /\ call' = Call("get_all_contacts", None, None)
    /\ ret' = ListResult(db)

\* `SELECT 1` on a new connection
check_connection ==
    /\ db' = db
    /\ pre' = db
    /\ call' = Call("check_connection", None, None)
    /\ ret' = Returned(TRUE)

\* a file of the file system: kind is "absent", "empty" (zero bytes),
\* "corrupt" (bytes that are not the expected format), "unreadable" (no
\* read permission) or "data", and data is its content when kind = "data"
File(kind, data) == [kind |-> kind, data |-> data]

\* a call to the JSON store; io is how the file system answers the write
JCall(op, name, contact, io) == [op |-> op, name |-> name, contact |-> contact, io |-> io]

\* the SQLite store created on a fresh database file
InitSql ==
    /\ db = {}
    /\ pre = {}
    /\ call = Call("init", None, None)
    /\ ret = Returned(TRUE)

\* no JSON store in this process
NoJson ==
    /\ contacts = <<>>
    /\ file = File("absent", <<>>)
    /\ up = FALSE
    /\ held = FALSE
    /\ jpre = [contacts |-> <<>>, file |-> File("absent", <<>>)]
    /\ jcall = JCall("none", None, None, "ok")
    /\ jret = Returned(TRUE)

\* a healthy, writable database file and nothing at the backup path
HealthyFiles ==
    /\ live = "ok"
    /\ backup = File("absent", {})
    /\ fpre = [live |-> "ok", backup |-> File("absent", {})]

\* a handler run: its name, its input (form fields, a row's name, or a
\* dialog's answer), the store operations it invoked in order, and whether
\* an exception escaped it
UiEvent(op, input, invoked, exc) ==
    [op |-> op, input |-> input, invoked |-> invoked, exc |-> exc]

\* no user interface in this process
NoUi ==
    /\ screen = "none"
    /\ table = <<>>
    /\ pending = None
    /\ ev = UiEvent("none", None, <<>>, FALSE)
    /\ upre = [db |-> {}, table |-> <<>>]
    /\ show_sidebar = FALSE
    /\ show_add_contact = FALSE
    /\ show_edit_contact = FALSE

Init == InitSql /\ NoJson /\ HealthyFiles /\ NoUi

Next ==
    \/ \E c \in Contacts : add_contact(c) /\ UNCHANGED <<jsonVars, fileVars, uiVars>>
    \/ \E n \in LookupNames, c \in Contacts :
          update_contact(n, c) /\ UNCHANGED <<jsonVars, fileVars, uiVars>>
    \/ \E n \in LookupNames : delete_contact(n) /\ UNCHANGED <<jsonVars, fileVars, uiVars>>
    \/ \E n \in LookupNames : get_contact_by_name(n) /\ UNCHANGED <<jsonVars, fileVars, uiVars>>
    \/ get_all_contacts /\ UNCHANGED <<jsonVars, fileVars, uiVars>>
    \/ check_connection /\ UNCHANGED <<jsonVars, fileVars, uiVars>>

Spec == Init /\ [][Next]_vars

(***************************************************************************)
(* Construction of a Contact.  src/models.py declares length constraints   *)
(* on the fields; src/models/contact.py, the class the JSON store and      *)
(* src/ui/screens.py import, declares none.                                *)
(***************************************************************************)
\* the dict json.loads(contact.json()) yields: last_contacted as ISO text
ToJson(c) ==
    [name |-> c.name, phone |-> c.phone, email |-> c.email, notes |-> c.notes,
     last_contacted |-> IF c.last_contacted # None
                        THEN Some(isoformat(c.last_contacted[1])) ELSE None]

\* the arguments Contact.from_json of src/models.py passes to cls(**json_dict)
from_json(j) ==
    Contact(j.name, j.phone, j.email, j.notes,
            IF j.last_contacted # None /\ Len(j.last_contacted[1]) > 0
            THEN Some(fromisoformat(j.last_contacted[1])) ELSE j.last_contacted)

\* "", "a", " "
RawNames == {<<>>, <<97>>, <<32>>}

\* "", "123", "12345"
RawPhones == {<<>>, <<49, 50, 51>>, DefaultPhone}

RawContacts ==
    {Contact(n, p, e, nt, l) :
        n \in RawNames, p \in RawPhones, e \in Emails, nt \in Notes, l \in {None, Some(1)}}

\* Contact(...) of src/models.py
models_Contact(c) ==
    /\ jcall' = JCall("models.Contact", None, Some(c), "ok")
    /\ jret' = IF ContactValid(c) THEN Value(Some(c)) ELSE Raised
    /\ UNCHANGED <<contacts, file, up, held, jpre>>

\* Contact(...) of src/models/contact.py: str fields without constraints
models_contact_Contact(c) ==
    /\ jcall' = JCall("models.contact.Contact", None, Some(c), "ok")
    /\ jret' = Value(Some(c))
    /\ UNCHANGED <<contacts, file, up, held, jpre>>

\* Contact.from_json(json.loads(c.json())) of src/models.py
models_Contact_from_json(c) ==
    /\ jcall' = JCall("models.Contact.from_json", None, Some(c), "ok")
    /\ jret' = IF ContactValid(from_json(ToJson(c))) THEN Value(Some(from_json(ToJson(c))))
               ELSE Raised
    /\ UNCHANGED <<contacts, file, up, held, jpre>>

NextRecord ==
    \/ \E c \in RawContacts : models_Contact(c) /\ UNCHANGED <<sqlVars, fileVars, uiVars>>
    \/ \E c \in RawContacts : models_contact_Contact(c) /\ UNCHANGED <<sqlVars, fileVars, uiVars>>
    \/ \E c \in RawContacts : models_Contact_from_json(c) /\ UNCHANGED <<sqlVars, fileVars, uiVars>>

SpecRecord == Init /\ [][NextRecord]_vars

(***************************************************************************)
(* ContactStorage (JSON file), src/services/storage.py.  self.contacts is  *)
(* a list; the file CONTACTS_FILE is rewritten whole by save_contacts.     *)
(***************************************************************************)
MaxListLen == 2

\* the contacts the JSON store is called with: "a", "A", "b" and "a" with a
\* last_contacted
JsonContacts ==
    {Contact(n, DefaultPhone, None, None, None) : n \in {<<97>>, <<65>>, <<98>>}}
    \cup {Contact(<<97>>, DefaultPhone, None, None, Some(1))}

\* "a", "A", "b"
JsonNames == {<<97>>, <<65>>, <<98>>}

\* how the file system answers save_contacts: the write succeeds, open()
\* fails (nothing written), or the write fails after open(..., 'w') has
\* truncated the file
IoOutcomes == {"ok", "open_fails", "write_fails"}

\* load_contacts: only FileNotFoundError is caught; json.load raises on an
\* empty or malformed file, open() on an unreadable one, and a non-empty
\* list raises AttributeError, the imported Contact having no from_json
load_contacts(f) ==
    IF f.kind = "absent" \/ (f.kind = "data" /\ f.data = <<>>)
    THEN [contacts |-> <<>>, exc |-> FALSE]
    ELSE [contacts |-> <<>>, exc |-> TRUE]

\* save_contacts on the list `list`: the file afterwards, and whether an
\* exception escapes
save_contacts(list, f, io) ==
    IF io = "ok"
    THEN [file |-> File("data", [i \in 1..Len(list) |-> ToJson(list[i])]), exc |-> FALSE]
    ELSE IF io = "open_fails" THEN [file |-> f, exc |-> TRUE]
    ELSE [file |-> File("corrupt", <<>>), exc |-> TRUE]

\* index of the first contact whose name.lower() equals name.lower(), or 0
FirstMatch(list, name) ==
    IF \E i \in 1..Len(list) : lower(list[i].name) = lower(name)
    THEN CHOOSE i \in 1..Len(list) :
            /\ lower(list[i].name) = lower(name)
            /\ \A j \in 1..(i - 1) : lower(list[j].name) # lower(name)
    ELSE 0

\* del list[i]
RemoveAt(list, i) == SubSeq(list, 1, i - 1) \o SubSeq(list, i + 1, Len(list))

\* list.reverse()
Reversed(list) == [i \in 1..Len(list) |-> list[Len(list) + 1 - i]]

JsonSnapshot == [contacts |-> contacts, file |-> file]

\* ContactStorage(): a process start
json_ContactStorage ==
    /\ jpre' = JsonSnapshot
    /\ jcall' = JCall("ContactStorage", None, None, "ok")
    /\ contacts' = load_contacts(file).contacts
    /\ up' = ~load_contacts(file).exc
    /\ jret' = IF load_contacts(file).exc THEN Raised ELSE Returned(TRUE)
    /\ held' = FALSE
    /\ file' = file

\* add_contact returns None (val <<>>, ok FALSE) unless save_contacts raises
json_add_contact(c, io) ==
    /\ up
    /\ Len(contacts) < MaxListLen
    /\ jpre' = JsonSnapshot
    /\ jcall' = JCall("add_contact", None, Some(c), io)
    /\ contacts' = Append(contacts, c)
    /\ file' = save_contacts(contacts', file, io).file
    /\ jret' = IF save_contacts(contacts', file, io).exc THEN Raised ELSE Returned(FALSE)
    /\ UNCHANGED <<up, held>>

json_get_all_contacts ==
    /\ up
    /\ jpre' = JsonSnapshot
    /\ jcall' = JCall("get_all_contacts", None, None, "ok")
    /\ jret' = Value(contacts)
    /\ held' = TRUE
    /\ UNCHANGED <<contacts, file, up>>

json_get_contact_by_name(name) ==
    /\ up
    /\ jpre' = JsonSnapshot
    /\ jcall' = JCall("get_contact_by_name", Some(name), None, "ok")
    /\ jret' = IF FirstMatch(contacts, name) = 0 THEN Value(None)
               ELSE Value(Some(contacts[FirstMatch(contacts, name)]))
    /\ UNCHANGED <<contacts, file, up, held>>

json_update_contact(name, c, io) ==
    /\ up
    /\ jpre' = JsonSnapshot
    /\ jcall' = JCall("update_contact", Some(name), Some(c), io)
    /\ IF FirstMatch(contacts, name) = 0
       THEN /\ io = "ok"
            /\ jret' = Returned(FALSE)
            /\ UNCHANGED <<contacts, file>>
       ELSE /\ contacts' = [contacts EXCEPT ![FirstMatch(contacts, name)] = c]
            /\ file' = save_contacts(contacts', file, io).file
            /\ jret' = IF save_contacts(contacts', file, io).exc THEN Raised
                       ELSE Returned(TRUE)
    /\ UNCHANGED <<up, held>>

json_delete_contact(name, io) ==
    /\ up
    /\ jpre' = JsonSnapshot
    /\ jcall' = JCall("delete_contact", Some(name), None, io)
    /\ IF FirstMatch(contacts, name) = 0
       THEN /\ io = "ok"
            /\ jret' = Returned(FALSE)
            /\ UNCHANGED <<contacts, file>>
       ELSE /\ contacts' = RemoveAt(contacts, FirstMatch(contacts, name))
            /\ file' = save_contacts(contacts', file, io).file
            /\ jret' = IF save_contacts(contacts', file, io).exc THEN Raised
                       ELSE Returned(TRUE)
    /\ UNCHANGED <<up, held>>

\* a caller that holds the list get_all_contacts returned appends to it
caller_append(c) ==
    /\ up /\ held
    /\ Len(contacts) < MaxListLen
    /\ jpre' = JsonSnapshot
    /\ jcall' = JCall("caller.append", None, Some(c), "ok")
    /\ contacts' = Append(contacts, c)
    /\ jret' = Returned(TRUE)
    /\ UNCHANGED <<file, up, held>>

\* ... removes its last element
caller_pop ==
    /\ up /\ held
    /\ Len(contacts) > 0
    /\ jpre' = JsonSnapshot
    /\ jcall' = JCall("caller.pop", None, None, "ok")
    /\ contacts' = SubSeq(contacts, 1, Len(contacts) - 1)
    /\ jret' = Returned(TRUE)
    /\ UNCHANGED <<file, up, held>>

\* ... reorders it
caller_reverse ==
    /\ up /\ held
    /\ jpre' = JsonSnapshot
    /\ jcall' = JCall("caller.reverse", None, None, "ok")
    /\ contacts' = Reversed(contacts)
    /\ jret' = Returned(TRUE)
    /\ UNCHANGED <<file, up, held>>

\* before the first process start the file is absent, empty, malformed or
\* unreadable
InitJson ==
    /\ InitSql /\ HealthyFiles /\ NoUi
    /\ contacts = <<>>
    /\ file \in {File(k, <<>>) : k \in {"absent", "empty", "corrupt", "unreadable"}}
    /\ up = FALSE
    /\ held = FALSE
    /\ jpre = [contacts |-> <<>>, file |-> file]
    /\ jcall = JCall("none", None, None, "ok")
    /\ jret = Returned(TRUE)

NextJson ==
    \/ json_ContactStorage /\ UNCHANGED <<sqlVars, fileVars, uiVars>>
    \/ \E c \in JsonContacts, io \in IoOutcomes :
          json_add_contact(c, io) /\ UNCHANGED <<sqlVars, fileVars, uiVars>>
    \/ json_get_all_contacts /\ UNCHANGED <<sqlVars, fileVars, uiVars>>
    \/ \E n \in JsonNames : json_get_contact_by_name(n) /\ UNCHANGED <<sqlVars, fileVars, uiVars>>
    \/ \E n \in JsonNames, c \in JsonContacts, io \in IoOutcomes :
          json_update_contact(n, c, io) /\ UNCHANGED <<sqlVars, fileVars, uiVars>>
    \/ \E n \in JsonNames, io \in IoOutcomes :
          json_delete_contact(n, io) /\ UNCHANGED <<sqlVars, fileVars, uiVars>>
    \/ \E c \in JsonContacts : caller_append(c) /\ UNCHANGED <<sqlVars, fileVars, uiVars>>
    \/ caller_pop /\ UNCHANGED <<sqlVars, fileVars, uiVars>>
    \/ caller_reverse /\ UNCHANGED <<sqlVars, fileVars, uiVars>>

SpecJson == InitJson /\ [][NextJson]_vars

(***************************************************************************)
(* Both stores driven by the same calls, each from its empty state, with   *)
(* every write succeeding.                                                 *)
(***************************************************************************)
both_add_contact(c) ==
    add_contact(c) /\ json_add_contact(c, "ok")

both_get_all_contacts ==
    get_all_contacts /\ json_get_all_contacts

both_get_contact_by_name(name) ==
    get_contact_by_name(name) /\ json_get_contact_by_name(name)

both_update_contact(name, c) ==
    update_contact(name, c) /\ json_update_contact(name, c, "ok")

both_delete_contact(name) ==
    delete_contact(name) /\ json_delete_contact(name, "ok")

\* ContactStorage(db_path) on a fresh file and ContactStorage() with no file
InitBoth ==
    /\ InitSql /\ HealthyFiles /\ NoUi
    /\ contacts = <<>>
    /\ file = File("absent", <<>>)
    /\ up = TRUE
    /\ held = FALSE
    /\ jpre = [contacts |-> <<>>, file |-> File("absent", <<>>)]
    /\ jcall = JCall("ContactStorage", None, None, "ok")
    /\ jret = Returned(TRUE)

NextBoth ==
    \/ \E c \in JsonContacts : both_add_contact(c) /\ UNCHANGED <<fileVars, uiVars>>
    \/ both_get_all_contacts /\ UNCHANGED <<fileVars, uiVars>>
    \/ \E n \in JsonNames : both_get_contact_by_name(n) /\ UNCHANGED <<fileVars, uiVars>>
    \/ \E n \in JsonNames, c \in JsonContacts : both_update_contact(n, c) /\ UNCHANGED <<fileVars, uiVars>>
    \/ \E n \in JsonNames : both_delete_contact(n) /\ UNCHANGED <<fileVars, uiVars>>

SpecBoth == InitBoth /\ [][NextBoth]_vars

(***************************************************************************)
(* The SQLite store and its files.  `live` is the condition of the file    *)
(* db_file: "ok" (a database with the contacts table, writable),           *)
(* "readonly" (the same without write permission), "absent", "empty"       *)
(* (zero bytes, no table) or "corrupt" (not a database).  `db` is the      *)
(* contacts table of that file, {} when there is none.  `backup` is the file at the path backups are       *)
(* written to: absent, a database holding the rows `data`, or "corrupt",   *)
(* a file that is not a database.                                          *)
(***************************************************************************)
\* "a" and "b"
FileContacts == {Contact(n, DefaultPhone, None, None, None) : n \in {<<97>>, <<98>>}}

\* backup_path: a path of its own, the path of the live database file, or
\* a path in a directory that does not exist
BackupPaths == {"other", "live", "nodir"}

\* how the file system answers the page writes of Connection.backup
BackupIo == {"ok", "disk_full"}

\* a call that never returns
Hung == [ok |-> FALSE, val |-> <<>>, exc |-> FALSE, hung |-> TRUE]

FileSnapshot == [live |-> live, backup |-> backup]

\* the process is gone: a call did not return, or the constructor raised
Stopped == ret = Hung \/ (call.op = "ContactStorage" /\ ret.exc)

\* sqlite3.connect(db_file) creates a zero-byte file where there is none
Connected(lv) == IF lv = "absent" THEN "empty" ELSE lv

\* a backup that creates the target database but copies no row into it
BackupSchemaOnly(rows, lv, bk, path, io) ==
    IF path = "other" /\ lv # "corrupt" /\ bk.kind # "corrupt" /\ io = "ok"
    THEN [result |-> "True", live |-> Connected(lv), rows |-> rows,
          backup |-> File("data", {})]
    ELSE [result |-> "False", live |-> Connected(lv), rows |-> rows, backup |-> bk]

\* backup_database(path) of a file-backed store: what it returns ("hang"
\* when it does not), and the live file, its table and the backup file
\* afterwards.  src.backup(dst) copies every page; on sqlite3.Error the
\* file at backup_path, if there is one, is unlinked.
BackupOutcome(rows, lv, bk, path, io) ==
    IF path = "nodir"
    THEN [result |-> "False", live |-> Connected(lv), rows |-> rows, backup |-> bk]
    ELSE IF path = "other"
    THEN IF lv # "corrupt" /\ bk.kind # "corrupt" /\ io = "ok"
         THEN [result |-> "True", live |-> Connected(lv), rows |-> rows,
               backup |-> File("data", rows)]
         ELSE [result |-> "False", live |-> Connected(lv), rows |-> rows,
               backup |-> File("absent", {})]
    ELSE IF lv \in {"readonly", "corrupt"}
    THEN [result |-> "False", live |-> "absent", rows |-> {}, backup |-> bk]
    ELSE [result |-> "hang", live |-> Connected(lv), rows |-> rows, backup |-> bk]

backup_database(path, io) ==
    /\ ~Stopped
    /\ pre' = db
    /\ fpre' = FileSnapshot
    /\ call' = Call("backup_database", Some(path), None)
    /\ db' = BackupOutcome(db, live, backup, path, io).rows
    /\ live' = BackupOutcome(db, live, backup, path, io).live
    /\ backup' = BackupOutcome(db, live, backup, path, io).backup
    /\ ret' = IF BackupOutcome(db, live, backup, path, io).result = "hang" THEN Hung
              ELSE Returned(BackupOutcome(db, live, backup, path, io).result = "True")

\* add_contact on the file as it is: without a writable database holding
\* the table the INSERT raises sqlite3.OperationalError, caught: False
file_add_contact(c) ==
    /\ ~Stopped
    /\ fpre' = FileSnapshot
    /\ IF live = "ok"
       THEN add_contact(c) /\ live' = live
       ELSE /\ db' = db
            /\ pre' = db
            /\ call' = Call("add_contact", None, Some(c))
            /\ ret' = Returned(FALSE)
            /\ live' = IF _validate_contact(c) THEN Connected(live) ELSE live
    /\ backup' = backup

\* get_all_contacts on the file as it is: without the table the SELECT
\* raises sqlite3.OperationalError, caught: []
file_get_all_contacts ==
    /\ ~Stopped
    /\ fpre' = FileSnapshot
    /\ IF live \in {"ok", "readonly"}
       THEN get_all_contacts /\ live' = live
       ELSE /\ db' = db
            /\ pre' = db
            /\ call' = Call("get_all_contacts", None, None)
            /\ ret' = Value(<<>>)
            /\ live' = Connected(live)
    /\ backup' = backup

\* ContactStorage(db_path) on the same path (a process start): _init_db
\* creates the table where there is none, and re-raises the sqlite3.Error
\* of a file that is not a database
sqlite_ContactStorage ==
    /\ ret # Hung
    /\ fpre' = FileSnapshot
    /\ pre' = db
    /\ call' = Call("ContactStorage", None, None)
    /\ ret' = IF live = "corrupt" THEN Raised ELSE Returned(TRUE)
    /\ live' = IF live \in {"absent", "empty"} THEN "ok" ELSE live
    /\ UNCHANGED <<db, backup>>

\* the file's owner withdraws or restores write permission
chmod_live ==
    /\ ret # Hung
    /\ live \in {"ok", "readonly"}
    /\ fpre' = FileSnapshot
    /\ pre' = db
    /\ call' = Call("chmod", None, None)
    /\ ret' = Returned(TRUE)
    /\ live' = IF live = "ok" THEN "readonly" ELSE "ok"
    /\ UNCHANGED <<db, backup>>

\* the file is overwritten with bytes that are not a database
corrupt_live ==
    /\ ret # Hung
    /\ live = "ok"
    /\ fpre' = FileSnapshot
    /\ pre' = db
    /\ call' = Call("corrupt", None, None)
    /\ ret' = Returned(TRUE)
    /\ live' = "corrupt"
    /\ db' = {}
    /\ backup' = backup

\* a store constructed on a fresh file; at the backup path nothing, or a
\* file that is not a database
InitFiles ==
    /\ InitSql /\ NoJson /\ NoUi
    /\ live = "ok"
    /\ backup \in {File("absent", {}), File("corrupt", {})}
    /\ fpre = [live |-> "ok", backup |-> backup]

NextFiles ==
    \/ \E path \in BackupPaths, io \in BackupIo :
          backup_database(path, io) /\ UNCHANGED <<jsonVars, uiVars>>
    \/ \E c \in FileContacts : file_add_contact(c) /\ UNCHANGED <<jsonVars, uiVars>>
    \/ file_get_all_contacts /\ UNCHANGED <<jsonVars, uiVars>>
    \/ sqlite_ContactStorage /\ UNCHANGED <<jsonVars, uiVars>>
    \/ chmod_live /\ UNCHANGED <<jsonVars, uiVars>>
    \/ corrupt_live /\ UNCHANGED <<jsonVars, uiVars>>

SpecFiles == InitFiles /\ [][NextFiles]_vars

(***************************************************************************)
(* The list-screen application, src/screens.py, on the SQLite store: the   *)
(* screens ContactList, AddContact, EditContact and ConfirmationModal.     *)
(* `screen` is "start" before ContactList is mounted, then "list", "add",  *)
(* "edit", "confirm_delete" or "confirm_quit"; "exited" after app.exit and *)
(* "crashed" after an exception escaped a handler.  A row of `table` holds *)
(* the five cell texts.  The same handlers, over the JSON store, make up   *)
(* src/ui/screens.py.                                                      *)
(***************************************************************************)
\* a name of 101 characters
LongName == [i \in 1..101 |-> 97]

\* what the user types: "", "a", "b", a name too long
FormNames == {<<>>, <<97>>, <<98>>, LongName}

\* "", "123", "12345", "  1  "
FormPhones == {<<>>, <<49, 50, 51>>, DefaultPhone, <<32, 32, 49, 32, 32>>}

\* "", "e"
FormEmails == {<<>>, <<101>>}

\* the values of the inputs #name, #phone, #email, #notes
Forms == [name : FormNames, phone : FormPhones, email : FormEmails, notes : {<<>>}]

\* the values datetime.now() takes while the application runs
Clock == {2}

\* Contact(name=name, phone=phone, email=email if email else None, ...,
\* last_contacted=datetime.now())
FormContact(f, t) ==
    Contact(f.name, f.phone,
            IF f.email # <<>> THEN Some(f.email) ELSE None,
            IF f.notes # <<>> THEN Some(f.notes) ELSE None,
            Some(t))

\* datetime.strftime("%Y-%m-%d")
strftime(d) == <<48 + d>>

\* `x or ""` for an Optional[str]
OrEmpty(x) == IF x # None THEN x[1] ELSE <<>>

\* the cells of table.add_row(...) for a contact with a last_contacted
RenderRow(c) ==
    [name |-> c.name, phone |-> c.phone, email |-> OrEmpty(c.email),
     last_contacted |-> strftime(c.last_contacted[1]), notes |-> OrEmpty(c.notes)]

\* the cells of a row in src/main.py: "" for a contact without last_contacted
RenderRowGuarded(c) ==
    [name |-> c.name, phone |-> c.phone, email |-> OrEmpty(c.email),
     last_contacted |-> IF c.last_contacted # None THEN strftime(c.last_contacted[1])
                        ELSE <<>>,
     notes |-> OrEmpty(c.notes)]

\* index of the first contact without last_contacted, or 0
FirstUnset(list) ==
    IF \E i \in 1..Len(list) : list[i].last_contacted = None
    THEN CHOOSE i \in 1..Len(list) :
            /\ list[i].last_contacted = None
            /\ \A j \in 1..(i - 1) : list[j].last_contacted # None
    ELSE 0

\* ContactList.refresh_contacts of src/screens.py on the table `rows`: the
\* DataTable afterwards and whether an exception escaped.  table.clear()
\* runs first; get_all_contacts may raise; `contact.last_contacted.strftime`
\* raises AttributeError on None, after the rows before it were added.
refresh_contacts(rows) ==
    IF ListResult(rows).exc THEN [table |-> <<>>, exc |-> TRUE]
    ELSE LET list == ListResult(rows).val
             stop == FirstUnset(list)
         IN IF stop # 0
            THEN [table |-> [i \in 1..(stop - 1) |-> RenderRow(list[i])], exc |-> TRUE]
            ELSE [table |-> [i \in 1..Len(list) |-> RenderRow(list[i])], exc |-> FALSE]

\* the tables the application may find when it starts: empty, a contact
\* saved with a last_contacted, a contact added without one
UiTables ==
    {{},
     {RowOf(Contact(<<97>>, DefaultPhone, None, None, Some(1)))},
     {RowOf(Contact(<<97>>, DefaultPhone, None, None, None))}}

UiSnapshot == [db |-> db, table |-> table]

\* what no handler of the list-screen application touches
ScreensFrame ==
    UNCHANGED <<pre, call, ret, jsonVars, fileVars,
                show_sidebar, show_add_contact, show_edit_contact>>

\* ContactList.on_mount
ContactList_on_mount ==
    /\ screen = "start"
    /\ upre' = UiSnapshot
    /\ ev' = UiEvent("ContactList.on_mount", None, <<"get_all_contacts">>,
                     refresh_contacts(db).exc)
    /\ table' = refresh_contacts(db).table
    /\ screen' = IF refresh_contacts(db).exc THEN "crashed" ELSE "list"
    /\ UNCHANGED <<db, pending>>

\* ContactList.action_add_contact
ContactList_action_add_contact ==
    /\ screen = "list"
    /\ upre' = UiSnapshot
    /\ ev' = UiEvent("ContactList.action_add_contact", None, <<>>, FALSE)
    /\ screen' = "add"
    /\ UNCHANGED <<db, table, pending>>

\* AddContact.action_save with the inputs holding f, at time t
AddContact_action_save(f, t) ==
    /\ screen = "add"
    /\ upre' = UiSnapshot
    /\ IF f.name = <<>> \/ f.phone = <<>>
       THEN /\ ev' = UiEvent("AddContact.action_save", Some(f), <<>>, FALSE)
            /\ UNCHANGED <<db, table, screen>>
       ELSE IF ~ContactValid(FormContact(f, t))
       THEN /\ ev' = UiEvent("AddContact.action_save", Some(f), <<>>, TRUE)
            /\ screen' = "crashed"
            /\ UNCHANGED <<db, table>>
       ELSE /\ db' = InsertRow(db, FormContact(f, t))
            /\ Cardinality(db') <= MaxContacts
            /\ ev' = UiEvent("AddContact.action_save", Some(f),
                             <<"add_contact", "get_all_contacts">>,
                             refresh_contacts(db').exc)
            /\ table' = refresh_contacts(db').table
            /\ screen' = IF refresh_contacts(db').exc THEN "crashed" ELSE "list"
    /\ UNCHANGED pending

\* AddContact.action_cancel
AddContact_action_cancel ==
    /\ screen = "add"
    /\ upre' = UiSnapshot
    /\ ev' = UiEvent("AddContact.action_cancel", None, <<>>, FALSE)
    /\ screen' = "list"
    /\ UNCHANGED <<db, table, pending>>

\* ContactList.action_edit_contact with the cursor on row i
ContactList_action_edit_contact(i) ==
    /\ screen = "list"
    /\ i \in 1..Len(table)
    /\ upre' = UiSnapshot
    /\ IF table[i].name = <<>>
       THEN /\ ev' = UiEvent("ContactList.action_edit_contact", Some(table[i].name),
                             <<>>, FALSE)
            /\ UNCHANGED <<screen, pending>>
       ELSE /\ ev' = UiEvent("ContactList.action_edit_contact", Some(table[i].name),
                             <<"get_contact_by_name">>,
                             LookupResult(db, table[i].name).exc)
            /\ screen' = IF LookupResult(db, table[i].name).exc THEN "crashed"
                         ELSE IF LookupResult(db, table[i].name).val = None THEN "list"
                         ELSE "edit"
            /\ pending' = IF LookupResult(db, table[i].name).val = None THEN pending
                          ELSE Some(LookupResult(db, table[i].name).val[1].name)
    /\ UNCHANGED <<db, table>>

\* EditContact.action_save with the inputs holding f, at time t
EditContact_action_save(f, t) ==
    /\ screen = "edit"
    /\ upre' = UiSnapshot
    /\ IF f.name = <<>> \/ f.phone = <<>>
       THEN /\ ev' = UiEvent("EditContact.action_save", Some(f), <<>>, FALSE)
            /\ UNCHANGED <<db, table, screen>>
       ELSE IF ~ContactValid(FormContact(f, t))
       THEN /\ ev' = UiEvent("EditContact.action_save", Some(f), <<>>, TRUE)
            /\ screen' = "crashed"
            /\ UNCHANGED <<db, table>>
       ELSE /\ db' = UpdateRows(db, pending[1], FormContact(f, t))
            /\ ev' = UiEvent("EditContact.action_save", Some(f),
                             <<"update_contact", "get_all_contacts">>,
                             refresh_contacts(db').exc)
            /\ table' = refresh_contacts(db').table
            /\ screen' = IF refresh_contacts(db').exc THEN "crashed" ELSE "list"
    /\ UNCHANGED pending

\* EditContact.action_cancel
EditContact_action_cancel ==
    /\ screen = "edit"
    /\ upre' = UiSnapshot
    /\ ev' = UiEvent("EditContact.action_cancel", None, <<>>, FALSE)
    /\ screen' = "list"
    /\ UNCHANGED <<db, table, pending>>

\* ContactList.action_delete_contact with the cursor on row i: the worker
\* show_delete_confirmation pushes the dialog and waits
ContactList_action_delete_contact(i) ==
    /\ screen = "list"
    /\ i \in 1..Len(table)
    /\ upre' = UiSnapshot
    /\ ev' = UiEvent("ContactList.action_delete_contact", Some(table[i].name), <<>>, FALSE)
    /\ screen' = IF table[i].name = <<>> THEN "list" ELSE "confirm_delete"
    /\ pending' = IF table[i].name = <<>> THEN pending ELSE Some(table[i].name)
    /\ UNCHANGED <<db, table>>

\* a delete dialog that deletes whatever the answer
delete_whatever_the_answer(confirm) ==
    /\ screen = "confirm_delete"
    /\ upre' = UiSnapshot
    /\ db' = DeleteRows(db, pending[1])
    /\ ev' = UiEvent("ContactList.show_delete_confirmation", Some(confirm),
                     <<"delete_contact">>, FALSE)
    /\ table' = table
    /\ screen' = "list"
    /\ UNCHANGED pending

\* ContactList.show_delete_confirmation resumed with the dialog's answer
show_delete_confirmation(confirm) ==
    /\ screen = "confirm_delete"
    /\ upre' = UiSnapshot
    /\ IF ~confirm
       THEN /\ ev' = UiEvent("ContactList.show_delete_confirmation", Some(confirm),
                             <<>>, FALSE)
            /\ screen' = "list"
            /\ UNCHANGED <<db, table>>
       ELSE /\ db' = DeleteRows(db, pending[1])
            /\ IF db' = db
               THEN /\ ev' = UiEvent("ContactList.show_delete_confirmation", Some(confirm),
                                     <<"delete_contact">>, FALSE)
                    /\ screen' = "list"
                    /\ table' = table
               ELSE /\ ev' = UiEvent("ContactList.show_delete_confirmation", Some(confirm),
                                     <<"delete_contact", "get_all_contacts">>,
                                     refresh_contacts(db').exc)
                    /\ table' = refresh_contacts(db').table
                    /\ screen' = IF refresh_contacts(db').exc THEN "crashed" ELSE "list"
    /\ UNCHANGED pending

\* ContactList.action_quit: the worker pushes the dialog and waits
ContactList_action_quit ==
    /\ screen = "list"
    /\ upre' = UiSnapshot
    /\ ev' = UiEvent("ContactList.action_quit", None, <<>>, FALSE)
    /\ screen' = "confirm_quit"
    /\ UNCHANGED <<db, table, pending>>

\* ContactList.action_quit resumed with the dialog's answer
action_quit_answered(confirm) ==
    /\ screen = "confirm_quit"
    /\ upre' = UiSnapshot
    /\ ev' = UiEvent("ContactList.action_quit", Some(confirm),
                     IF confirm THEN <<"app.exit">> ELSE <<>>, FALSE)
    /\ screen' = IF confirm THEN "exited" ELSE "list"
    /\ UNCHANGED <<db, table, pending>>

\* ContactsApp started on a database file earlier runs left behind
InitScreens ==
    /\ db \in UiTables
    /\ pre = db
    /\ call = Call("init", None, None)
    /\ ret = Returned(TRUE)
    /\ NoJson /\ HealthyFiles
    /\ screen = "start"
    /\ table = <<>>
    /\ pending = None
    /\ ev = UiEvent("none", None, <<>>, FALSE)
    /\ upre = [db |-> db, table |-> <<>>]
    /\ show_sidebar = FALSE
    /\ show_add_contact = FALSE
    /\ show_edit_contact = FALSE

NextScreens ==
    \/ ContactList_on_mount /\ ScreensFrame
    \/ ContactList_action_add_contact /\ ScreensFrame
    \/ \E f \in Forms, t \in Clock : AddContact_action_save(f, t) /\ ScreensFrame
    \/ AddContact_action_cancel /\ ScreensFrame
    \/ \E i \in 1..MaxContacts : ContactList_action_edit_contact(i) /\ ScreensFrame
    \/ \E f \in Forms, t \in Clock : EditContact_action_save(f, t) /\ ScreensFrame
    \/ EditContact_action_cancel /\ ScreensFrame
    \/ \E i \in 1..MaxContacts : ContactList_action_delete_contact(i) /\ ScreensFrame
    \/ \E confirm \in BOOLEAN : show_delete_confirmation(confirm) /\ ScreensFrame
    \/ ContactList_action_quit /\ ScreensFrame
    \/ \E confirm \in BOOLEAN : action_quit_answered(confirm) /\ ScreensFrame

SpecScreens == InitScreens /\ [][NextScreens]_vars

(***************************************************************************)
(* The sidebar application, src/main.py, on the SQLite store: the app      *)
(* ContactManager with the widgets AddContactSidebar and                   *)
(* EditContactSidebar.  `screen` is "start" before the app is mounted,     *)
(* then "main"; `pending` is EditContactSidebar.original_name.  A sidebar  *)
(* that is not shown is only moved out of view: its inputs and buttons     *)
(* stay in the widget tree, so its handlers can run at any time.           *)
(***************************************************************************)
\* ContactManager.refresh_contacts on the table `rows`: the DataTable
\* afterwards and whether an exception escaped
ContactManager_refresh_contacts(rows) ==
    IF ListResult(rows).exc THEN [table |-> <<>>, exc |-> TRUE]
    ELSE LET list == ListResult(rows).val
         IN [table |-> [i \in 1..Len(list) |-> RenderRowGuarded(list[i])], exc |-> FALSE]

SidebarSnapshot ==
    [db |-> db, table |-> table, show_edit_contact |-> show_edit_contact,
     pending |-> pending]

\* what no handler of the sidebar application touches
SidebarFrame == UNCHANGED <<pre, call, ret, jsonVars, fileVars>>

\* EditContactSidebar.set_contact
set_contact(contact) == pending' = Some(contact.name)

\* ContactManager.hide_add_contact_sidebar
hide_add_contact_sidebar == show_add_contact' = FALSE

\* ContactManager.hide_edit_contact_sidebar
hide_edit_contact_sidebar == show_edit_contact' = FALSE

\* ContactManager.on_mount
ContactManager_on_mount ==
    /\ screen = "start"
    /\ upre' = SidebarSnapshot
    /\ ev' = UiEvent("ContactManager.on_mount", None, <<"get_all_contacts">>,
                     ContactManager_refresh_contacts(db).exc)
    /\ table' = ContactManager_refresh_contacts(db).table
    /\ screen' = IF ContactManager_refresh_contacts(db).exc THEN "crashed" ELSE "main"
    /\ UNCHANGED <<db, pending, show_sidebar, show_add_contact, show_edit_contact>>

\* ContactManager.action_toggle_sidebar
ContactManager_action_toggle_sidebar ==
    /\ screen = "main"
    /\ upre' = SidebarSnapshot
    /\ ev' = UiEvent("ContactManager.action_toggle_sidebar", None, <<>>, FALSE)
    /\ show_sidebar' = ~show_sidebar
    /\ UNCHANGED <<db, table, screen, pending, show_add_contact, show_edit_contact>>

\* ContactManager.action_add_contact
ContactManager_action_add_contact ==
    /\ screen = "main"
    /\ upre' = SidebarSnapshot
    /\ ev' = UiEvent("ContactManager.action_add_contact", None, <<>>, FALSE)
    /\ show_add_contact' = TRUE
    /\ UNCHANGED <<db, table, screen, pending, show_sidebar, show_edit_contact>>

\* AddContactSidebar.action_save with the inputs holding f, at time t
AddContactSidebar_action_save(f, t) ==
    /\ screen = "main"
    /\ upre' = SidebarSnapshot
    /\ IF f.name = <<>> \/ f.phone = <<>>
       THEN /\ ev' = UiEvent("AddContactSidebar.action_save", Some(f), <<>>, FALSE)
            /\ UNCHANGED <<db, table, screen, show_add_contact>>
       ELSE IF ~ContactValid(FormContact(f, t))
       THEN /\ ev' = UiEvent("AddContactSidebar.action_save", Some(f), <<>>, TRUE)
            /\ screen' = "crashed"
            /\ UNCHANGED <<db, table, show_add_contact>>
       ELSE /\ db' = InsertRow(db, FormContact(f, t))
            /\ Cardinality(db') <= MaxContacts
            /\ ev' = UiEvent("AddContactSidebar.action_save", Some(f),
                             <<"add_contact", "get_all_contacts">>,
                             ContactManager_refresh_contacts(db').exc)
            /\ table' = ContactManager_refresh_contacts(db').table
            /\ IF ContactManager_refresh_contacts(db').exc
               THEN screen' = "crashed" /\ UNCHANGED show_add_contact
               ELSE screen' = "main" /\ hide_add_contact_sidebar
    /\ UNCHANGED <<pending, show_sidebar, show_edit_contact>>

\* AddContactSidebar.action_cancel
AddContactSidebar_action_cancel ==
    /\ screen = "main"
    /\ upre' = SidebarSnapshot
    /\ ev' = UiEvent("AddContactSidebar.action_cancel", None, <<>>, FALSE)
    /\ hide_add_contact_sidebar
    /\ UNCHANGED <<db, table, screen, pending, show_sidebar, show_edit_contact>>

\* ContactManager.action_edit_contact with the cursor on row i
ContactManager_action_edit_contact(i) ==
    /\ screen = "main"
    /\ i \in 1..Len(table)
    /\ upre' = SidebarSnapshot
    /\ IF table[i].name = <<>>
       THEN /\ ev' = UiEvent("ContactManager.action_edit_contact", Some(table[i].name),
                             <<>>, FALSE)
            /\ UNCHANGED <<screen, pending, show_edit_contact>>
       ELSE IF LookupResult(db, table[i].name).exc
       THEN /\ ev' = UiEvent("ContactManager.action_edit_contact", Some(table[i].name),
                             <<"get_contact_by_name">>, TRUE)
            /\ screen' = "crashed"
            /\ UNCHANGED <<pending, show_edit_contact>>
       ELSE IF LookupResult(db, table[i].name).val = None
       THEN /\ ev' = UiEvent("ContactManager.action_edit_contact", Some(table[i].name),
                             <<"get_contact_by_name">>, FALSE)
            /\ UNCHANGED <<screen, pending, show_edit_contact>>
       ELSE /\ ev' = UiEvent("ContactManager.action_edit_contact", Some(table[i].name),
                             <<"get_contact_by_name", "set_contact">>, FALSE)
            /\ set_contact(LookupResult(db, table[i].name).val[1])
            /\ show_edit_contact' = TRUE
            /\ UNCHANGED screen
    /\ UNCHANGED <<db, table, show_sidebar, show_add_contact>>

\* EditContactSidebar.action_save with the inputs holding f, at time t
EditContactSidebar_action_save(f, t) ==
    /\ screen = "main"
    /\ upre' = SidebarSnapshot
    /\ IF f.name = <<>> \/ f.phone = <<>> \/ pending = None \/ pending = Some(<<>>)
       THEN /\ ev' = UiEvent("EditContactSidebar.action_save", Some(f), <<>>, FALSE)
            /\ UNCHANGED <<db, table, screen, show_edit_contact>>
       ELSE IF ~ContactValid(FormContact(f, t))
       THEN /\ ev' = UiEvent("EditContactSidebar.action_save", Some(f), <<>>, TRUE)
            /\ screen' = "crashed"
            /\ UNCHANGED <<db, table, show_edit_contact>>
       ELSE /\ db' = UpdateRows(db, pending[1], FormContact(f, t))
            /\ ev' = UiEvent("EditContactSidebar.action_save", Some(f),
                             <<"update_contact", "get_all_contacts">>,
                             ContactManager_refresh_contacts(db').exc)
            /\ table' = ContactManager_refresh_contacts(db').table
            /\ IF ContactManager_refresh_contacts(db').exc
               THEN screen' = "crashed" /\ UNCHANGED show_edit_contact
               ELSE screen' = "main" /\ hide_edit_contact_sidebar
    /\ UNCHANGED <<pending, show_sidebar, show_add_contact>>

\* EditContactSidebar.action_cancel
EditContactSidebar_action_cancel ==
    /\ screen = "main"
    /\ upre' = SidebarSnapshot
    /\ ev' = UiEvent("EditContactSidebar.action_cancel", None, <<>>, FALSE)
    /\ hide_edit_contact_sidebar
    /\ UNCHANGED <<db, table, screen, pending, show_sidebar, show_add_contact>>

\* ContactManager.action_quit_application
ContactManager_action_quit_application ==
    /\ screen = "main"
    /\ upre' = SidebarSnapshot
    /\ ev' = UiEvent("ContactManager.action_quit_application", None, <<"app.exit">>, FALSE)
    /\ screen' = "exited"
    /\ UNCHANGED <<db, table, pending, show_sidebar, show_add_contact, show_edit_contact>>

\* ContactManager started on a database file earlier runs left behind
InitSidebar ==
    /\ db \in UiTables
    /\ pre = db
    /\ call = Call("init", None, None)
    /\ ret = Returned(TRUE)
    /\ NoJson /\ HealthyFiles
    /\ screen = "start"
    /\ table = <<>>
    /\ pending = None
    /\ ev = UiEvent("none", None, <<>>, FALSE)
    /\ upre = [db |-> db, table |-> <<>>, show_edit_contact |-> FALSE, pending |-> None]
    /\ show_sidebar = FALSE
    /\ show_add_contact = FALSE
    /\ show_edit_contact = FALSE

NextSidebar ==
    \/ ContactManager_on_mount /\ SidebarFrame
    \/ ContactManager_action_toggle_sidebar /\ SidebarFrame
    \/ ContactManager_action_add_contact /\ SidebarFrame
    \/ \E f \in Forms, t \in Clock : AddContactSidebar_action_save(f, t) /\ SidebarFrame
    \/ AddContactSidebar_action_cancel /\ SidebarFrame
    \/ \E i \in 1..MaxContacts : ContactManager_action_edit_contact(i) /\ SidebarFrame
    \/ \E f \in Forms, t \in Clock : EditContactSidebar_action_save(f, t) /\ SidebarFrame
    \/ EditContactSidebar_action_cancel /\ SidebarFrame
    \/ ContactManager_action_quit_application /\ SidebarFrame

SpecSidebar == InitSidebar /\ [][NextSidebar]_vars

(***************************************************************************)
(* Properties.  `pre` is the table before the last call, `call` the call   *)
(* and `ret` its outcome.  Names are compared case-insensitively the way   *)
(* the specification words it: equality of the case-folded texts.          *)
(***************************************************************************)
SameName(a, b) == lower(a) = lower(b)

ArgName == call.name[1]

ArgContact == call.contact[1]

\* C1: add_contact of a contact whose name equals, case-insensitively, the
\* name of a stored contact returns False, raises nothing and leaves the
\* stored collection exactly as it was.
C1_DuplicateAddRejected ==
    (call.op = "add_contact" /\ \E r \in pre : SameName(r.name, ArgContact.name))
        => (ret = Returned(FALSE) /\ db = pre)

\* C2: no two stored contacts have names that are equal under
\* case-insensitive comparison.
C2_NamesUnique ==
    \A r \in db, q \in db : r # q => ~SameName(r.name, q.name)

\* C3: get_all_contacts returns (without raising) exactly the stored
\* contacts, each once, ordered by name ascending under case-insensitive
\* comparison.
C3_GetAllListsStore ==
    call.op = "get_all_contacts" =>
        /\ ~ret.exc
        /\ Len(ret.val) = Cardinality(db)
        /\ \A r \in db : \E i \in 1..Len(ret.val) : ret.val[i] = FromRow(r)
        /\ \A i \in 1..Len(ret.val), j \in 1..Len(ret.val) :
              i < j => ~TextLess(lower(ret.val[j].name), lower(ret.val[i].name))

\* C4: get_contact_by_name returns the stored contact whose full name equals
\* the argument (taken without its surrounding whitespace) case-insensitively,
\* and returns None without raising when the argument is blank or names no
\* stored contact.
C4_LookupByName ==
    call.op = "get_contact_by_name" =>
        LET hits == {r \in db : SameName(r.name, strip(ArgName))}
        IN /\ (Blank(ArgName) \/ hits = {}) => ret = Value(None)
           /\ (~Blank(ArgName) /\ hits # {}) =>
                 /\ ~ret.exc
                 /\ ret.val # None
                 /\ \E r \in hits : ret.val[1] = FromRow(r)

\* C5: a successful update_contact keeps the record's previous last_contacted
\* when the new contact's last_contacted is unset, and overwrites it with the
\* new contact's last_contacted when that is set (both read back through
\* get_contact_by_name).
C5_LastContactedMerge ==
    (call.op = "update_contact" /\ ret.ok) =>
        LET before == LookupResult(pre, ArgName)
            after == LookupResult(db, ArgContact.name)
        IN (~before.exc /\ before.val # None /\ ~after.exc /\ after.val # None) =>
              after.val[1].last_contacted =
                  IF ArgContact.last_contacted = None
                  THEN before.val[1].last_contacted
                  ELSE ArgContact.last_contacted

C7_UpdateReplacesFields ==
    (call.op = "update_contact" /\ ret.ok) =>
        LET after == LookupResult(db, ArgContact.name)
        IN /\ ~after.exc
           /\ after.val # None
           /\ after.val[1].name = strip(ArgContact.name)
           /\ after.val[1].phone = strip(ArgContact.phone)
           /\ after.val[1].email = StripOrNone(ArgContact.email)
           /\ after.val[1].notes = StripOrNone(ArgContact.notes)
           /\ ~SameName(strip(ArgContact.name), strip(ArgName))
                 => LookupResult(db, ArgName) = Value(None)
           /\ \A r \in pre : ~SameName(r.name, strip(ArgName)) => r \in db

\* C8: delete_contact(name) returns True exactly when a stored contact
\* matches name (taken without its surrounding whitespace)
\* case-insensitively; then get_contact_by_name(name) is None and all other
\* contacts are unchanged; otherwise it returns False and leaves the
\* collection unchanged.
C8_DeleteByName ==
    call.op = "delete_contact" =>
        LET hits == {r \in pre : SameName(r.name, strip(ArgName))}
        IN /\ ret = Returned(hits # {})
           /\ hits # {} => /\ LookupResult(db, ArgName) = Value(None)
                           /\ db = pre \ hits
           /\ hits = {} => db = pre

\* C9: add_contact of a valid contact whose name matches no stored contact
\* returns True, and get_contact_by_name(contact.name) then returns a contact
\* with the same name and phone (both in the whitespace-stripped form the
\* store keeps).
C9_AddThenGet ==
    (/\ call.op = "add_contact"
     /\ _validate_contact(ArgContact)
     /\ ~\E r \in pre : SameName(r.name, strip(ArgContact.name)))
        => /\ ret = Returned(TRUE)
           /\ LET got == LookupResult(db, ArgContact.name)
              IN /\ ~got.exc
                 /\ got.val # None
                 /\ got.val[1].name = strip(ArgContact.name)
                 /\ got.val[1].phone = strip(ArgContact.phone)

\* C10: every stored record has a non-empty (not whitespace-only) name and
\* phone, and add_contact / update_contact given a record with a blank name
\* or phone return False and change nothing.
C10_NoBlankRecord ==
    /\ \A r \in db : ~Blank(r.name) /\ ~Blank(r.phone)
    /\ (/\ call.op \in {"add_contact", "update_contact"}
        /\ (Blank(ArgContact.name) \/ Blank(ArgContact.phone)))
           => (ret = Returned(FALSE) /\ db = pre)

\* an update of an existing contact with a whitespace-only phone was rejected
C10_Witness ==
    /\ call.op = "update_contact"
    /\ Matching(pre, strip(ArgName)) # {}
    /\ ~Blank(ArgContact.name)
    /\ Blank(ArgContact.phone)
    /\ ret = Returned(FALSE)

\* C11: constructing a Contact with an empty name or an empty phone raises
\* a validation error, with either Contact class of the repository.
C11_EmptyFieldsRejected ==
    (/\ jcall.op \in {"models.Contact", "models.contact.Contact"}
     /\ (Len(jcall.contact[1].name) = 0 \/ Len(jcall.contact[1].phone) = 0))
    => jret.exc

\* the field values the store keeps of a contact: texts without their
\* surrounding whitespace
Stripped(c) ==
    Contact(strip(c.name), strip(c.phone), StripOrNone(c.email), StripOrNone(c.notes),
            c.last_contacted)

\* C12: once add/update/delete has returned True, a new store opened on
\* the same database file lists the contacts with the field values stored:
\* the list is returned, holds the contact just added or updated, and no
\* longer holds the name just deleted.
C12_DurableRoundTrip ==
    (call.op \in {"add_contact", "update_contact", "delete_contact"} /\ ret.ok)
    => LET r == ReopenedList(db)
       IN /\ ~r.exc
          /\ call.op \in {"add_contact", "update_contact"}
                => \E i \in 1..Len(r.val) : r.val[i] = Stripped(ArgContact)
          /\ call.op = "delete_contact"
                => \A i \in 1..Len(r.val) : r.val[i].name # strip(ArgName)

\* C13: constructing the JSON store on a backing file that is absent,
\* empty, unreadable or corrupt raises nothing and yields a store with an
\* empty collection.
C13_LoadNeverRaises ==
    (/\ jcall.op = "ContactStorage"
     /\ jpre.file.kind \in {"absent", "empty", "unreadable", "corrupt"})
    => (~jret.exc /\ up /\ contacts = <<>>)

\* every entry of the file `old` is still an entry of the file `new`
Keeps(new, old) ==
    old.kind = "data"
    => /\ new.kind = "data"
       /\ \A i \in 1..Len(old.data) : \E j \in 1..Len(new.data) : new.data[j] = old.data[i]

\* C14: when the write of save_contacts fails during add/update/delete, no
\* exception escapes the operation, the list keeps the mutation, and the
\* contacts the file held before are still in the file.
C14_SaveFailureContained ==
    (jcall.op \in {"add_contact", "update_contact", "delete_contact"} /\ jcall.io # "ok")
    => /\ ~jret.exc
       /\ jcall.op = "add_contact" => contacts = Append(jpre.contacts, jcall.contact[1])
       /\ jcall.op = "update_contact"
             => \E i \in 1..Len(contacts) : contacts[i] = jcall.contact[1]
       /\ jcall.op = "delete_contact" => Len(contacts) = Len(jpre.contacts) - 1
       /\ Keeps(file, jpre.file)

\* C15: a new store constructed on a file that save_contacts wrote holds
\* contacts with the field values saved: entry by entry, the loaded contact
\* is the saved dict with last_contacted converted back from ISO text.
C15_SaveLoadRoundTrip ==
    (jcall.op = "ContactStorage" /\ jpre.file.kind = "data")
    => /\ ~jret.exc
       /\ Len(contacts) = Len(jpre.file.data)
       /\ \A i \in 1..Len(contacts) :
             /\ contacts[i] = from_json(jpre.file.data[i])
             /\ ToJson(contacts[i]) = jpre.file.data[i]

\* C17: in the JSON store an add_contact whose name equals a listed name
\* case-insensitively fails and changes neither the list nor the file, and
\* the list never holds two contacts with case-insensitively equal names.
C17_JsonDuplicateAddRejected ==
    /\ (/\ jcall.op = "add_contact"
        /\ \E i \in 1..Len(jpre.contacts) :
              SameName(jpre.contacts[i].name, jcall.contact[1].name))
       => (~jret.exc /\ ~jret.ok /\ contacts = jpre.contacts /\ file = jpre.file)
    /\ \A i, j \in 1..Len(contacts) :
          i # j => ~SameName(contacts[i].name, contacts[j].name)

\* C18: a caller that appends to, removes from or reorders the list that
\* get_all_contacts returned leaves the store's collection, hence what
\* later get_all_contacts / get_contact_by_name calls return, as it was.
C18_GetAllReturnsFreshList ==
    jcall.op \in {"caller.append", "caller.pop", "caller.reverse"}
    => contacts = jpre.contacts

\* C16: driven by the same calls from empty, the two stores hold the same
\* contacts after every call, and get_all_contacts, get_contact_by_name,
\* update_contact and delete_contact return the same result in both.
C16_StoresAgree ==
    /\ Len(contacts) = Cardinality(db)
    /\ {contacts[i] : i \in 1..Len(contacts)} = {FromRow(r) : r \in db}
    /\ call.op \in {"get_all_contacts", "get_contact_by_name", "update_contact",
                     "delete_contact"}
          => ret = jret

\* C19: when backup_database returns False, a live database that was
\* usable is as it was, file and contents, and no partial file is left at
\* backup_path: whatever is there is a whole database or (at a path of its
\* own) nothing.
C19_FailedBackupHarmless ==
    (call.op = "backup_database" /\ ret = Returned(FALSE))
    => /\ fpre.live \in {"ok", "readonly"} => (live = fpre.live /\ db = pre)
       /\ ArgName = "other" => backup.kind \in {"absent", "data"}

\* C20: when backup_database returns True, the file at backup_path (a
\* path of its own) is a database holding exactly the contacts of the live
\* database, whose table is as before the call and whose file, where there
\* was one, is as it was.
C20_BackupCopiesLive ==
    (call.op = "backup_database" /\ ret = Returned(TRUE))
    => /\ ArgName = "other"
       /\ backup.kind = "data"
       /\ backup.data = db
       /\ db = pre
       /\ fpre.live # "absent" => live = fpre.live

\* a backup of a store holding two contacts has succeeded, replacing what
\* was at the path
C20_Witness ==
    /\ call.op = "backup_database"
    /\ ret = Returned(TRUE)
    /\ Cardinality(db) = 2
    /\ backup = File("data", db)
    /\ fpre.backup # backup

\* the rows the last update_contact matched
Hit == Matching(pre, strip(ArgName))

\* C25: an update_contact that would rename the matched contact to a name
\* case-insensitively equal to a different stored contact's name returns
\* False, raises nothing and leaves the table as it was.
C25_RenameOntoOtherRejected ==
    (/\ call.op = "update_contact"
     /\ ~Blank(ArgName)
     /\ _validate_contact(ArgContact)
     /\ Hit # {}
     /\ \E r \in pre \ Hit : SameName(r.name, strip(ArgContact.name)))
    => (ret = Returned(FALSE) /\ db = pre)

\* C26: an update_contact whose new name differs from the matched
\* record's name by letter case only returns True, stores the new
\* spelling and keeps the number of contacts.
C26_RecaseOwnName ==
    (/\ call.op = "update_contact"
     /\ ~Blank(ArgName)
     /\ _validate_contact(ArgContact)
     /\ strip(ArgContact.name) = ArgContact.name
     /\ \E r \in Hit : SameName(r.name, ArgContact.name) /\ r.name # ArgContact.name)
    => /\ ret = Returned(TRUE)
       /\ RowOf(ArgContact) \in db
       /\ Cardinality(db) = Cardinality(pre)

\* C27: when delete_contact(name) has returned True, an add_contact that
\* follows it with the same name in any letter case returns True, and the
\* only row of that name afterwards is the one built from the new contact.
C27_DeleteThenAddAgain ==
    [][(/\ call.op = "delete_contact"
        /\ ret = Returned(TRUE)
        /\ call'.op = "add_contact"
        /\ _validate_contact(call'.contact[1])
        /\ SameName(strip(call'.contact[1].name), strip(call.name[1])))
       => (/\ ret' = Returned(TRUE)
           /\ RowOf(call'.contact[1]) \in db'
           /\ \A r \in db' : (SameName(r.name, strip(call.name[1]))
                                  => r = RowOf(call'.contact[1])))]_vars

\* C28: texts are stored stripped; a name that, stripped, equals a stored
\* name up to ASCII letter case is found by get_contact_by_name, and an
\* add_contact of such a name is rejected as a duplicate.
C28_WhitespaceNormalised ==
    /\ \A r \in db :
          /\ r.name = strip(r.name)
          /\ r.phone = strip(r.phone)
          /\ (r.email # None => r.email[1] = strip(r.email[1]))
          /\ (r.notes # None => r.notes[1] = strip(r.notes[1]))
    /\ (call.op = "add_contact" /\ ret.ok) => Stripped(ArgContact).name \in {r.name : r \in db}
    /\ (/\ call.op = "get_contact_by_name"
        /\ \E r \in pre : NOCASE(r.name) = NOCASE(strip(ArgName)))
       => /\ ~ret.exc
          /\ ret.val # None
          /\ NOCASE(ret.val[1].name) = NOCASE(strip(ArgName))
    /\ (/\ call.op = "add_contact"
        /\ \E r \in pre : NOCASE(r.name) = NOCASE(strip(ArgContact.name)))
       => (ret = Returned(FALSE) /\ db = pre)

\* C29: get_all_contacts, get_contact_by_name and check_connection leave
\* the table, every row and field of it, as it was, whatever they return.
C29_ReadsChangeNothing ==
    call.op \in {"get_all_contacts", "get_contact_by_name", "check_connection"}
    => db = pre

\* a lookup has returned a contact of a table of two, and another has
\* raised
C29_Witness ==
    /\ call.op = "get_contact_by_name"
    /\ Cardinality(pre) = 2
    /\ (ret.exc \/ ret.val # None)

\* the last handler invoked the operation `op`
Invoked(op) == \E k \in 1..Len(ev.invoked) : ev.invoked[k] = op

\* the last handler was a save of the add or edit form
SaveHandler == ev.op \in {"AddContact.action_save", "EditContact.action_save"}

\* the rows a table in step with the store shows
Shown(rows) ==
    [i \in 1..Len(ListResult(rows).val) |-> RenderRowGuarded(ListResult(rows).val[i])]

\* C21: storage.delete_contact is invoked only by the delete dialog
\* answered yes, and then for the name the dialog was opened for; app.exit
\* only by the quit dialog answered yes; a dialog answered no invokes
\* nothing, leaves the store as it was and does not exit.
C21_OnlyAfterConfirmation ==
    /\ Invoked("delete_contact")
          => /\ ev.op = "ContactList.show_delete_confirmation"
             /\ ev.input = Some(TRUE)
             /\ db = DeleteRows(upre.db, pending[1])
    /\ (Invoked("app.exit") \/ screen = "exited")
          => (ev.op = "ContactList.action_quit" /\ ev.input = Some(TRUE))
    /\ (/\ ev.op \in {"ContactList.show_delete_confirmation", "ContactList.action_quit"}
        /\ ev.input = Some(FALSE))
          => (ev.invoked = <<>> /\ db = upre.db /\ screen = "list")
    /\ ev.op \notin {"ContactList.show_delete_confirmation", "AddContact.action_save",
                      "EditContact.action_save"}
          => db = upre.db

\* a delete dialog opened on a stored contact was answered no
C21_Witness ==
    /\ ev.op = "ContactList.show_delete_confirmation"
    /\ ev.input = Some(FALSE)
    /\ Matching(db, pending[1]) # {}

\* C22: after a save that reached the store and after a confirmed delete
\* the handler has returned and the table shows the rows of
\* get_all_contacts() in its order; when the store refused the operation
\* (duplicate or unknown name) the rows are those shown before.
C22_TableFollowsStore ==
    ((SaveHandler /\ ev.invoked # <<>>)
       \/ (ev.op = "ContactList.show_delete_confirmation" /\ ev.input = Some(TRUE)))
    => /\ ~ev.exc
       /\ ~ListResult(db).exc
       /\ table = Shown(db)
       /\ db = upre.db => table = upre.table

\* the form's inputs make a valid contact
ValidForm(f) ==
    /\ f.name # <<>>
    /\ f.phone # <<>>
    /\ \A t \in Clock : ContactValid(FormContact(f, t))

\* C23: a save whose inputs do not form a valid contact invokes no store
\* operation, changes nothing and lets no exception escape the handler.
C23_InvalidInputCaught ==
    (SaveHandler /\ ~ValidForm(ev.input[1]))
    => (ev.invoked = <<>> /\ ~ev.exc /\ db = upre.db /\ table = upre.table)

\* C24: when the store returns its contacts, refresh_contacts raises
\* nothing and the table holds one row per contact, with an empty cell
\* for an unset last_contacted, email or notes.
C24_RefreshRendersEveryRow ==
    (Invoked("get_all_contacts") /\ ~ListResult(db).exc)
    => (~ev.exc /\ table = Shown(db))

====
